---------------------------- MODULE Spec2Model ----------------------------
(***************************************************************************)
(* Query resolution and escalation engine of the support chatbot:         *)
(* ChatService.processQuestion (three revisions kept in the repository),  *)
(* MatchingEngine.findBestMatch (hybrid vector/lexical engine and the     *)
(* weighted exhaustive scan), SalesforceService.createCase.               *)
(*                                                                         *)
(* Strings are sequences of one-character strings, so that trim, split    *)
(* and includes are computed as the code computes them.  Scores are       *)
(* integers in units of 1/1000000 (ScoreOne = 1.0).                        *)
(***************************************************************************)
EXTENDS Integers, Sequences, FiniteSets, TLC

(***************************************************************************)
(* Strings                                                                 *)
(***************************************************************************)
EmptyStr == << >>

IsSpace(c) == c = " "

Includes(s, c) == \E i \in DOMAIN s : s[i] = c

RECURSIVE TrimStart(_)
TrimStart(s) ==
  IF s = << >> THEN s
  ELSE IF IsSpace(Head(s)) THEN TrimStart(Tail(s)) ELSE s

RECURSIVE TrimEnd(_)
TrimEnd(s) ==
  IF s = << >> THEN s
  ELSE IF IsSpace(s[Len(s)]) THEN TrimEnd(SubSeq(s, 1, Len(s) - 1)) ELSE s

Trim(s) == TrimEnd(TrimStart(s))

\* Position of the first occurrence of c in s, 0 when there is none.
RECURSIVE IndexFrom(_, _, _)
IndexFrom(s, c, i) ==
  IF i > Len(s) THEN 0
  ELSE IF s[i] = c THEN i ELSE IndexFrom(s, c, i + 1)

IndexOf(s, c) == IndexFrom(s, c, 1)

\* String.prototype.split with a one-character separator.
RECURSIVE Split(_, _)
Split(s, c) ==
  LET i == IndexOf(s, c)
  IN IF i = 0 THEN << s >>
     ELSE << SubSeq(s, 1, i - 1) >> \o Split(SubSeq(s, i + 1, Len(s)), c)

MapTrim(parts) == [i \in DOMAIN parts |-> Trim(parts[i])]

\* Array.prototype.find(p => p.includes(c)); EmptyStr stands for undefined.
RECURSIVE FindIncluding(_, _)
FindIncluding(parts, c) ==
  IF parts = << >> THEN EmptyStr
  ELSE IF Includes(Head(parts), c) THEN Head(parts)
  ELSE FindIncluding(Tail(parts), c)

ToUpperCase(c) ==
  CASE c = "a" -> "A"
    [] c = "k" -> "K"
    [] c = "m" -> "M"
    [] c = "n" -> "N"
    [] c = "p" -> "P"
    [] c = "s" -> "S"
    [] OTHER -> c

NotAvailable == << "N", "/", "A" >>

\* The first label of the domain as it is written, not capitalized.
extractOrgVerbatim(email) ==
  LET byAt == Split(email, "@")
  IN IF Len(byAt) < 2 THEN NotAvailable ELSE Split(byAt[2], ".")[1]

\* ChatService.extractOrgFromEmail: the first label of the domain with its
\* first character upper-cased; 'N/A' when the address has no '@'.
extractOrgFromEmail(email) ==
  LET byAt == Split(email, "@")
  IN IF Len(byAt) < 2 THEN NotAvailable
     ELSE LET domain  == byAt[2]
              company == Split(domain, ".")[1]
          IN IF company = << >> THEN EmptyStr
             ELSE << ToUpperCase(Head(company)) >> \o Tail(company)


(***************************************************************************)
(* Scores                                                                  *)
(***************************************************************************)
SimOne    == 10000      \* cosine similarity 1.0
WeightOne == 100        \* confidence_weight 1.0
ScoreOne  == SimOne * WeightOne   \* confidence_score 1.0

Max(a, b) == IF a >= b THEN a ELSE b
Min(a, b) == IF a <= b THEN a ELSE b

\* Revisions of ChatService kept in the repository, and the engine each
\* one is built with.
Revisions == {"session", "parse", "ticket"}

Engine(r) == IF r = "ticket" THEN "scan" ELSE "hybrid"

\* MatchingEngine.ts:19 (CONFIDENCE_THRESHOLD = 0.75) and
\* config/index.ts:47 (CONFIDENCE_THRESHOLD || '0.7').
HybridDefaultThreshold == 750000
ConfigDefaultThreshold == 700000

DefaultThreshold(r) ==
  IF Engine(r) = "hybrid" THEN HybridDefaultThreshold ELSE ConfigDefaultThreshold

(***************************************************************************)
(* Knowledge base                                                          *)
(***************************************************************************)
KbIds == {1, 2}

\* knowledge_base.confidence_weight of the two rows, in units of 1/WeightOne.
confidence_weight(id) == IF id = 1 THEN 95 ELSE 50

answer_text(id) == IF id = 1 THEN "answer_1" ELSE "answer_2"

NoEntry == [present |-> FALSE, id |-> 0, answer_text |-> "none"]

\* A row of knowledge_base (SELECT *): carries answer_text.
KbRow(id) == [present |-> TRUE, id |-> id, answer_text |-> answer_text(id)]

\* The metadata KnowledgeBaseModel.create attaches to a Pinecone record:
\* db_id, text and category, no answer_text.
KbMetadata(id) == [present |-> TRUE, id |-> id, answer_text |-> "undefined"]

\* KnowledgeBaseModel.findAll: the active rows, ORDER BY created_at DESC.
RECURSIVE DescendingSeq(_)
DescendingSeq(S) ==
  IF S = {} THEN << >>
  ELSE LET m == CHOOSE x \in S : \A y \in S : y <= x
       IN << m >> \o DescendingSeq(S \ {m})

findAll(status) == DescendingSeq({id \in KbIds : status[id] = "active"})

(***************************************************************************)
(* Embeddings                                                              *)
(***************************************************************************)
\* Vectors the embedding provider may return; the last one has a different
\* dimension (a malformed embedding).
Vectors ==
  { <<1, 0>>, <<0, 1>>, <<-1, 0>>, <<3, 4>>, <<4, 3>>, <<-3, 4>>, <<0, 0>>, <<1>> }

RECURSIVE DotFrom(_, _, _)
DotFrom(a, b, i) ==
  IF i > Len(a) THEN 0 ELSE a[i] * b[i] + DotFrom(a, b, i + 1)

Dot(a, b) == DotFrom(a, b, 1)

\* Math.sqrt on the squared norms of Vectors (all perfect squares).
Sqrt(n) == CHOOSE r \in 0..n : r * r = n

\* EmbeddingService.calculateCosineSimilarity, in units of 1/SimOne; "throw"
\* when the dimensions differ.
calculateCosineSimilarity(e1, e2) ==
  IF Len(e1) # Len(e2) THEN [threw |-> TRUE, value |-> 0]
  ELSE LET magnitude == Sqrt(Dot(e1, e1)) * Sqrt(Dot(e2, e2))
       IN IF magnitude = 0 THEN [threw |-> FALSE, value |-> 0]
          ELSE [threw |-> FALSE, value |-> (Dot(e1, e2) * SimOne) \div magnitude]

(***************************************************************************)
(* MatchingEngine, hybrid engine (services/MatchingEngine.ts)              *)
(***************************************************************************)
maxRetries == 3

\* Outcome of one embedContent call of the provider.
EmbedStatus == {"ok", "403", "429", "other"}

\* MatchingEngine.generateEmbedding: outs[i] is the provider's outcome at the
\* i-th call.  Gives whether a vector was obtained and the number of calls.
RECURSIVE generateEmbeddingFrom(_, _)
generateEmbeddingFrom(outs, attempt) ==
  IF ~(attempt < maxRetries) THEN [vector |-> FALSE, calls |-> attempt]
  ELSE LET o == outs[attempt + 1]
       IN IF o = "ok" THEN [vector |-> TRUE, calls |-> attempt + 1]
          ELSE IF o = "403" THEN [vector |-> FALSE, calls |-> attempt + 1]
          ELSE IF o = "429" THEN generateEmbeddingFrom(outs, attempt + 1)
          ELSE [vector |-> FALSE, calls |-> attempt + 1]

\* A generateEmbedding that tries again after every failure.
generateEmbeddingRetryAll(outs) ==
  LET firstOk == {i \in 1..maxRetries :
                    outs[i] = "ok" /\ \A j \in 1..(i - 1) : outs[j] # "ok"}
  IN IF firstOk = {} THEN [vector |-> FALSE, calls |-> maxRetries]
     ELSE [vector |-> TRUE, calls |-> CHOOSE i \in firstOk : TRUE]

generateEmbedding(outs) == generateEmbeddingFrom(outs, 0)

\* The provider was not called.
NoEmbedOuts == << >>

NoHit == [found |-> FALSE, score |-> 0, id |-> 0, rank |-> 0]

\* MatchingEngine.performVectorSearch: null when no vector, when the index
\* query throws or when it has no match; score is matches[0].score || 0.
performVectorSearch(embedding, query) ==
  IF ~embedding.vector THEN NoHit
  ELSE IF query.status = "hit"
       THEN [found |-> TRUE, score |-> query.score, id |-> query.id, rank |-> 0]
       ELSE NoHit

\* MatchingEngine.performTextSearch: the best ranked row of knowledge_base
\* (no filter on status), null when none or when the query throws.
performTextSearch(search) ==
  IF search.status = "row"
  THEN [found |-> TRUE, score |-> 0, id |-> search.id, rank |-> search.rank]
  ELSE NoHit

\* Math.min(0.85 + search_rank, 0.95) when search_rank > 0, else 0.85.
TextFloor == 850000
TextCap   == 950000

dynamicScore(search_rank) ==
  IF search_rank > 0 THEN Min(TextFloor + search_rank, TextCap) ELSE TextFloor

NoMatch ==
  [matched_entry |-> NoEntry, confidence_score |-> 0,
   is_confident |-> FALSE, source |-> "NONE"]

\* No scan took place.
NoScan ==
  [findAll |-> "ok", user |-> [ok |-> FALSE, vector |-> <<0, 0>>],
   entryOk |-> [id \in KbIds |-> TRUE]]

\* A findBestMatch that asks the lexical search first.
findBestMatchTextFirst(threshold, env) ==
  LET embedding   == generateEmbedding(env.embed)
      vectorMatch == performVectorSearch(embedding, env.vector)
      textMatch   == performTextSearch(env.text)
      vectorOk    == ~textMatch.found /\ vectorMatch.found
                       /\ vectorMatch.score >= threshold
      result ==
        IF textMatch.found
        THEN [matched_entry |-> KbRow(textMatch.id),
              confidence_score |-> dynamicScore(textMatch.rank),
              is_confident |-> TRUE, source |-> "TEXT"]
        ELSE IF vectorOk
        THEN [matched_entry |-> KbMetadata(vectorMatch.id),
              confidence_score |-> vectorMatch.score,
              is_confident |-> TRUE, source |-> "VECTOR"]
        ELSE NoMatch
  IN [result |-> result,
      embedFailed |-> ~embedding.vector,
      embedCalls |-> embedding.calls,
      embedOuts |-> env.embed,
      vectorQueried |-> embedding.vector,
      textSearched |-> TRUE,
      vectorMatch |-> vectorMatch,
      textMatch |-> textMatch,
      scan |-> NoScan,
      threshold |-> threshold,
      threw |-> FALSE]

\* MatchingEngine.findBestMatch of the hybrid engine.  The trace keeps what
\* each step returned; the lexical step returns nothing when it is not run.
findBestMatchHybrid(threshold, env) ==
  LET embedding   == generateEmbedding(env.embed)
      vectorMatch == performVectorSearch(embedding, env.vector)
      vectorOk    == vectorMatch.found /\ vectorMatch.score >= threshold
      textMatch   == performTextSearch(env.text)
      result ==
        IF vectorOk
        THEN [matched_entry |-> KbMetadata(vectorMatch.id),
              confidence_score |-> vectorMatch.score,
              is_confident |-> TRUE, source |-> "VECTOR"]
        ELSE IF textMatch.found
        THEN [matched_entry |-> KbRow(textMatch.id),
              confidence_score |-> dynamicScore(textMatch.rank),
              is_confident |-> TRUE, source |-> "TEXT"]
        ELSE NoMatch
  IN [result |-> result,
      embedFailed |-> ~embedding.vector,
      embedCalls |-> embedding.calls,
      embedOuts |-> env.embed,
      vectorQueried |-> embedding.vector,
      textSearched |-> ~vectorOk,
      vectorMatch |-> vectorMatch,
      textMatch |-> IF vectorOk THEN NoHit ELSE textMatch,
      scan |-> NoScan,
      threshold |-> threshold,
      threw |-> FALSE]

(***************************************************************************)
(* MatchingEngine, weighted exhaustive scan (earlier MatchingEngine)       *)
(***************************************************************************)
\* Scoring of one entry: entryError when embedding one of its questions or
\* the similarity computation throws; otherwise max similarity (starting
\* from 0) times confidence_weight.
RECURSIVE maxSimilarityFrom(_, _, _, _)
maxSimilarityFrom(userEmbedding, questions, i, acc) ==
  IF i > Len(questions) THEN [threw |-> FALSE, value |-> acc]
  ELSE LET sim == calculateCosineSimilarity(userEmbedding, questions[i])
       IN IF sim.threw THEN [threw |-> TRUE, value |-> 0]
          ELSE maxSimilarityFrom(userEmbedding, questions, i + 1,
                                 Max(acc, sim.value))

\* A scoring that leaves out confidence_weight.
scoreEntryUnweighted(userEmbedding, questions, weight, embedOk) ==
  IF ~embedOk THEN [entryError |-> TRUE, finalConfidenceScore |-> 0]
  ELSE LET m == maxSimilarityFrom(userEmbedding, questions, 1, 0)
       IN IF m.threw THEN [entryError |-> TRUE, finalConfidenceScore |-> 0]
          ELSE [entryError |-> FALSE,
                finalConfidenceScore |-> m.value * WeightOne]

scoreEntry(userEmbedding, questions, weight, embedOk) ==
  IF ~embedOk THEN [entryError |-> TRUE, finalConfidenceScore |-> 0]
  ELSE LET m == maxSimilarityFrom(userEmbedding, questions, 1, 0)
       IN IF m.threw THEN [entryError |-> TRUE, finalConfidenceScore |-> 0]
          ELSE [entryError |-> FALSE,
                finalConfidenceScore |-> m.value * weight]

\* The loop over kbEntries: keeps the first entry with the strictly highest
\* score, skipping entries whose scoring throws.
RECURSIVE scanEntries(_, _, _, _, _, _)
scanEntries(entries, i, userEmbedding, vectors, embedOk, best) ==
  IF i > Len(entries) THEN best
  ELSE LET id == entries[i]
           sc == scoreEntry(userEmbedding, vectors[id],
                            confidence_weight(id), embedOk[id])
           nb == IF ~sc.entryError
                    /\ sc.finalConfidenceScore > best.bestConfidenceScore
                 THEN [bestMatch |-> KbRow(id),
                       bestConfidenceScore |-> sc.finalConfidenceScore]
                 ELSE best
       IN scanEntries(entries, i + 1, userEmbedding, vectors, embedOk, nb)

\* scan keeps what findAll and the embedding provider returned to the scan.
ScanTrace(result, threshold, failed, threw, env) ==
  [result |-> result, embedFailed |-> failed, embedCalls |-> 0,
   embedOuts |-> NoEmbedOuts, vectorQueried |-> FALSE, textSearched |-> FALSE,
   vectorMatch |-> NoHit, textMatch |-> NoHit,
   scan |-> [findAll |-> env.findAll, user |-> env.user,
             entryOk |-> env.entryOk],
   threshold |-> threshold, threw |-> threw]

\* The MatchResult of this engine has no source field.
ScanNoMatch == [NoMatch EXCEPT !.source = "absent"]

\* Step 4: the threshold decision on the best score.
thresholdDecision(best, threshold) ==
  LET isConfident == best.bestConfidenceScore >= threshold
  IN [matched_entry |-> IF isConfident THEN best.bestMatch ELSE NoEntry,
      confidence_score |-> best.bestConfidenceScore,
      is_confident |-> isConfident,
      source |-> "absent"]

\* MatchingEngine.findBestMatch of the exhaustive scan.
findBestMatchScan(threshold, status, vectors, env) ==
  IF env.findAll = "fail" THEN ScanTrace(ScanNoMatch, threshold, FALSE, FALSE, env)
  ELSE
    LET kbEntries == findAll(status)
    IN IF Len(kbEntries) = 0 THEN ScanTrace(ScanNoMatch, threshold, FALSE, FALSE, env)
       ELSE IF ~env.user.ok THEN ScanTrace(ScanNoMatch, threshold, TRUE, FALSE, env)
       ELSE LET best == scanEntries(kbEntries, 1, env.user.vector, vectors,
                                    env.entryOk,
                                    [bestMatch |-> NoEntry,
                                     bestConfidenceScore |-> 0])
            IN ScanTrace(thresholdDecision(best, threshold), threshold,
                         FALSE, FALSE, env)

(***************************************************************************)
(* SalesforceService (services/SalesforceService.ts)                       *)
(***************************************************************************)
\* accessToken/tokenExpiry: cached tells whether accessToken is set, valid
\* whether new Date() < tokenExpiry, value which token the endpoint issued.
NoToken == [cached |-> FALSE, valid |-> FALSE, value |-> "none"]

AccessTokens == {"tokA", "tokB"}

IssuedToken(v) == [cached |-> TRUE, valid |-> TRUE, value |-> v]

\* Outcome of the token request: failure or the token issued.
AuthStatus == {"fail"} \cup AccessTokens
PostStatus == {"ok", "http_error", "not_success"}
TicketIds  == {"500A", "500B", "500C"}

MockCaseId     == "SF-mock"
FallbackCaseId == "SF-fallback"
RandomCaseId   == "00-random"
NoCaseId       == "none"

\* An authenticate that asks the token endpoint at every call.
authenticateAlways(token, out) ==
  IF out # "fail"
  THEN [ok |-> TRUE, token |-> IssuedToken(out), requested |-> TRUE]
  ELSE [ok |-> FALSE, token |-> token, requested |-> TRUE]

\* SalesforceService.authenticate (non-mock): the cached token while it is
\* valid, otherwise one request to the token endpoint; throws when it fails.
authenticate(token, out) ==
  IF token.cached /\ token.valid
  THEN [ok |-> TRUE, token |-> token, requested |-> FALSE]
  ELSE IF out # "fail"
       THEN [ok |-> TRUE, token |-> IssuedToken(out), requested |-> TRUE]
       ELSE [ok |-> FALSE, token |-> token, requested |-> TRUE]

\* Authentication followed by the POST of the case; fails when either
\* throws or the response has success = false.  bearer is the token the
\* POST carried.
postCase(token, authOut, postOut) ==
  LET a == authenticate(token, authOut)
  IN [ok |-> a.ok /\ postOut = "ok",
      token |-> a.token,
      authRequested |-> a.requested,
      posted |-> a.ok,
      bearer |-> IF a.ok THEN a.token.value ELSE "none"]

\* A retry that keeps the cached token.
createCaseRetryCached(token, authOut, postOut) ==
  postCase(token, authOut, postOut)

\* SalesforceService.createCaseRetry (non-mock): clears the cached token,
\* then authenticates and posts again.
createCaseRetry(token, authOut, postOut) ==
  postCase(NoToken, authOut, postOut)

NoAttempt == [ok |-> FALSE, token |-> NoToken, authRequested |-> FALSE,
              posted |-> FALSE, bearer |-> "none"]

\* SalesforceService.createCase.  env gives the outcome of each outbound
\* call and the id the ticketing system would issue.
createCase(mock, token, env) ==
  IF mock
  THEN [threw |-> FALSE, caseId |-> MockCaseId, token |-> token,
        attempts |-> 0, first |-> NoAttempt, retry |-> NoAttempt,
        tokenBefore |-> token]
  ELSE LET retried(first, retry) ==
             [threw |-> ~retry.ok,
              caseId |-> IF retry.ok THEN env.id ELSE NoCaseId,
              token |-> retry.token,
              attempts |-> 2, first |-> first, retry |-> retry,
              tokenBefore |-> token]
           attempted(first) ==
             IF first.ok
             THEN [threw |-> FALSE, caseId |-> env.id, token |-> first.token,
                   attempts |-> 1, first |-> first, retry |-> NoAttempt,
                   tokenBefore |-> token]
             ELSE retried(first,
                          createCaseRetry(first.token, env.auth2, env.post2))
       IN attempted(postCase(token, env.auth1, env.post1))

CaseEnvs ==
  [auth1 : AuthStatus, post1 : PostStatus,
   auth2 : AuthStatus, post2 : PostStatus, id : TicketIds]

(***************************************************************************)
(* Chat requests and responses (types: ChatRequest, ChatResponse)          *)
(***************************************************************************)
\* user_info of a request; present = FALSE stands for an absent object and
\* EmptyStr for an absent (or empty) field, both falsy in the code.
NoUserInfo ==
  [present |-> FALSE, name |-> EmptyStr, email |-> EmptyStr,
   organization |-> EmptyStr]

UserInfo(name, email, organization) ==
  [present |-> TRUE, name |-> name, email |-> email,
   organization |-> organization]

NoSession == 0

NoAnswer == [kind |-> "none", text |-> "none", name |-> EmptyStr,
             organization |-> EmptyStr]

Response(type, answer, message, case_id, score, info_needed) ==
  [response_type |-> type, answer |-> answer, message |-> message,
   case_id |-> case_id, confidence_score |-> score,
   info_needed |-> info_needed]

\* getErrorResponse of the later revisions ("Something went wrong.") and
\* STATIC_MESSAGES.ERROR of the earlier one.
ErrorResponse(message) ==
  Response("ERROR", NoAnswer, message, NoCaseId, -1, {})

CollectInfo(message, needed) ==
  Response("COLLECT_INFO", NoAnswer, message, NoCaseId, -1, needed)

Answered(answer, score) ==
  Response("ANSWERED", answer, "none", NoCaseId, score, {})

Escalated(message, case_id) ==
  Response("ESCALATED", NoAnswer, message, case_id, -1, {})

\* `${STATIC_MESSAGES.CONFIDENCE_RESPONSE}\n\n${matched_entry.answer_text}`
KbAnswer(entry) ==
  [kind |-> "kb", text |-> entry.answer_text, name |-> EmptyStr,
   organization |-> EmptyStr]

VerifiedAnswer(name, org) ==
  [kind |-> "verified", text |-> "none", name |-> name, organization |-> org]

AlreadyVerifiedAnswer ==
  [kind |-> "already", text |-> "none", name |-> EmptyStr,
   organization |-> EmptyStr]

NoMatchTrace ==
  [result |-> NoMatch, embedFailed |-> FALSE, embedCalls |-> 0,
   embedOuts |-> NoEmbedOuts, vectorQueried |-> FALSE, textSearched |-> FALSE,
   vectorMatch |-> NoHit, textMatch |-> NoHit, scan |-> NoScan,
   threshold |-> 0, threw |-> FALSE]

NoCase ==
  [threw |-> FALSE, caseId |-> NoCaseId, token |-> NoToken, attempts |-> 0,
   first |-> NoAttempt, retry |-> NoAttempt, tokenBefore |-> NoToken]

\* What a turn did besides answering: the collaborators it called.
NoEffects ==
  [sessionRead |-> FALSE, restored |-> FALSE, parsed |-> FALSE,
   upsert |-> "none", sessionWrite |-> FALSE,
   engineCalled |-> FALSE, match |-> NoMatchTrace,
   caseCalled |-> FALSE, case |-> NoCase,
   chatLogWrites |-> 0, chatLogFailed |-> FALSE,
   unansweredWrites |-> 0, unansweredFailed |-> FALSE,
   threw |-> FALSE]

\* ON CONFLICT (email) DO UPDATE: one row per email.
upsertUser(store, name, email, org) ==
  {u \in store : u.email # email}
    \cup {[name |-> name, email |-> email, organization |-> org]}

hasIdentity(user_info) ==
  user_info.present /\ user_info.name # EmptyStr /\ user_info.email # EmptyStr

looksLikeIdentity(input) == Includes(input, ",") /\ Includes(input, "@")

\* The identity parse: parts, the first part holding '@', the first part.
parseIdentity(input) ==
  LET parts == MapTrim(Split(input, ","))
      email == FindIncluding(parts, "@")
      name  == parts[1]
      third == IF Len(parts) >= 3 THEN parts[3] ELSE EmptyStr
  IN [ok |-> email # EmptyStr /\ name # EmptyStr,
      name |-> name, email |-> email,
      organization |-> IF third # EmptyStr THEN third
                       ELSE extractOrgFromEmail(email)]

\* A guard that answers whenever some score was computed.
isAnswerablePositiveScore(matchResult) == matchResult.confidence_score > 0

\* matchResult.is_confident && matchResult.matched_entry
isAnswerable(matchResult) ==
  matchResult.is_confident /\ matchResult.matched_entry.present

(***************************************************************************)
(* ChatService, session revision (services/ChatService.ts)                 *)
(***************************************************************************)
SomethingWentWrong == "Something went wrong."

Turn(response, map, store, tok, fx) ==
  [response |-> response, sessionUserMap |-> map, userStore |-> store,
   token |-> tok, fx |-> fx]

\* ChatService.logInteraction: ChatLogModel.create, then for an escalation
\* UnansweredQuestionModel.create; any failure is caught and logged.
logInteraction(fx, type, env) ==
  IF ~env.chatLog[1] THEN [fx EXCEPT !.chatLogFailed = TRUE]
  ELSE LET logged == [fx EXCEPT !.chatLogWrites = @ + 1]
       IN IF type # "Escalation" THEN logged
          ELSE IF env.unansweredOk
               THEN [logged EXCEPT !.unansweredWrites = @ + 1]
               ELSE [logged EXCEPT !.unansweredFailed = TRUE]

\* The earlier logInteraction: user id lookup and INSERT through the pool
\* first, then the same two model writes.
logInteractionPool(fx, type, env) ==
  IF ~env.poolOk THEN [fx EXCEPT !.chatLogFailed = TRUE]
  ELSE logInteraction([fx EXCEPT !.chatLogWrites = @ + 1], type, env)

\* ChatService.handleAnswered (later revisions).
handleAnswered(matchResult, fx) ==
  [response |-> Answered(KbAnswer(matchResult.matched_entry),
                         matchResult.confidence_score),
   fx |-> fx]

\* ChatService.handleEscalation (later revisions): needs a name only; the
\* case id is a random number, no ticket is created.
handleEscalation(user_info, fx) ==
  IF ~user_info.present \/ user_info.name = EmptyStr
  THEN [response |-> CollectInfo("no_answer_collect", {"name", "email"}),
        logged |-> FALSE]
  ELSE [response |-> Escalated("ticket_details", RandomCaseId),
        logged |-> TRUE]

\* Step 5 of the later revisions: match, then answer or escalate.
normalFlow(user_info, threshold, map, store, tok, fx0, env, pooled) ==
  LET mt  == findBestMatchHybrid(threshold, env.match)
      fx1 == [fx0 EXCEPT !.engineCalled = TRUE, !.match = mt]
      log(fx, type) == IF pooled THEN logInteractionPool(fx, type, env)
                       ELSE logInteraction(fx, type, env)
  IN IF isAnswerable(mt.result)
     THEN Turn(handleAnswered(mt.result, fx1).response, map, store, tok,
               log(fx1, "Answered"))
     ELSE LET esc == handleEscalation(user_info, fx1)
          IN Turn(esc.response, map, store, tok,
                  IF esc.logged THEN log(fx1, "Escalation") ELSE fx1)

\* The identity parse branch: upsert into user_info (failures are caught in
\* upsertUser), then the session map write when a session id is present.
identityBranch(request, input, map, store, tok, fx0, env, useSession) ==
  LET p   == parseIdentity(input)
      fx1 == [fx0 EXCEPT !.parsed = TRUE]
      userInfo == UserInfo(p.name, p.email, p.organization)
      store1 == IF env.upsertOk
                THEN upsertUser(store, p.name, p.email, p.organization)
                ELSE store
      write == useSession /\ request.user_session_id # NoSession
      map1 == IF write
              THEN [map EXCEPT ![request.user_session_id] = userInfo]
              ELSE map
  IN [ok |-> p.ok,
      turn |-> Turn(Answered(VerifiedAnswer(p.name, p.organization), ScoreOne),
                    map1, store1, tok,
                    [fx1 EXCEPT !.upsert = IF env.upsertOk THEN "ok"
                                           ELSE "failed",
                                !.sessionWrite = write]),
      fx |-> fx1]

\* A restore that takes the identity of whichever session has one.
restoreUserAnySession(request, map) ==
  LET doRestore == ~request.user_info.present
                     /\ request.user_session_id # NoSession
      saved     == {sid \in DOMAIN map : map[sid].present}
      savedUser == IF doRestore /\ saved # {}
                   THEN map[CHOOSE sid \in saved : TRUE]
                   ELSE NoUserInfo
  IN [user_info |-> IF doRestore /\ savedUser.present THEN savedUser
                    ELSE request.user_info,
      sessionRead |-> doRestore,
      restored |-> doRestore /\ savedUser.present]

\* Step 1: restore the user of the session when the request has no
\* user_info and carries a session id.
restoreUser(request, map) ==
  LET doRestore == ~request.user_info.present
                     /\ request.user_session_id # NoSession
      savedUser == IF doRestore THEN map[request.user_session_id]
                   ELSE NoUserInfo
  IN [user_info |-> IF doRestore /\ savedUser.present THEN savedUser
                    ELSE request.user_info,
      sessionRead |-> doRestore,
      restored |-> doRestore /\ savedUser.present]

\* Steps 2 to 4: which branch of processQuestion the turn takes.
sessionStage(user_info, input) ==
  LET has   == hasIdentity(user_info)
      looks == looksLikeIdentity(input)
  IN IF ~has /\ ~looks THEN "gate"
     ELSE IF has /\ looks THEN "already"
     ELSE IF ~has /\ looks THEN "parse"
     ELSE "normal"

\* Steps 1 and 2 of processQuestion: the trimmed input, the restored user
\* and the branch they select.
sessionPre(request, map) ==
  LET input == Trim(request.user_question)
      r     == restoreUser(request, map)
  IN [input |-> input, r |-> r, stage |-> sessionStage(r.user_info, input)]

\* ChatService.processQuestion of the session revision; pre is
\* sessionPre(request, map).
processQuestionSession(request, pre, map, store, tok, threshold, env) ==
  LET input == pre.input
      r     == pre.r
      fx0   == [NoEffects EXCEPT !.sessionRead = r.sessionRead,
                                 !.restored = r.restored]
      stage == pre.stage
  IN IF stage = "gate"
     THEN Turn(CollectInfo("identity_gate", {"name", "email"}),
               map, store, tok, fx0)
     ELSE IF stage = "already"
     THEN Turn(Answered(AlreadyVerifiedAnswer, ScoreOne),
               map, store, tok, fx0)
     ELSE IF stage = "parse"
     THEN LET b == identityBranch(request, input, map, store, tok, fx0,
                                  env, TRUE)
          IN IF ~b.ok
             THEN Turn(CollectInfo("invalid_format", {"name", "email"}),
                       map, store, tok, b.fx)
             ELSE b.turn
     ELSE normalFlow(r.user_info, threshold, map, store, tok, fx0, env, FALSE)

(***************************************************************************)
(* ChatService, parse revision (no session map)                            *)
(***************************************************************************)
\* Phase 1 applies when the input holds '@' and ',' and parses to a name
\* and an email; everything else goes to the search.
parseStage(input) ==
  IF looksLikeIdentity(input) /\ parseIdentity(input).ok THEN "parse"
  ELSE "normal"

parsePre(request) ==
  LET input == Trim(request.user_question)
  IN [input |-> input, looks |-> looksLikeIdentity(input),
      stage |-> parseStage(input)]

\* ChatService.processQuestion of the parse revision; pre is
\* parsePre(request).
processQuestionParse(request, pre, map, store, tok, threshold, env) ==
  IF pre.stage = "parse"
  THEN identityBranch(request, pre.input, map, store, tok, NoEffects,
                      env, FALSE).turn
  ELSE normalFlow(request.user_info, threshold, map, store, tok,
                  [NoEffects EXCEPT !.parsed = pre.looks], env, TRUE)

(***************************************************************************)
(* ChatService, ticket revision (earlier ChatService, with Salesforce)     *)
(***************************************************************************)
MaxQuestionLength == 1000

StaticError       == "STATIC_MESSAGES.ERROR"
StaticCollectInfo == "STATIC_MESSAGES.COLLECT_INFO"

NoResponse == Response("none", NoAnswer, "none", NoCaseId, -1, {})

\* handleError without the try/catch around its log write.
handleErrorRethrowing(tok, fx, env, call) ==
  IF env.chatLog[call]
  THEN [response |-> ErrorResponse(StaticError), token |-> tok,
        fx |-> [fx EXCEPT !.chatLogWrites = @ + 1],
        threw |-> FALSE, next |-> call + 1]
  ELSE [response |-> NoResponse, token |-> tok,
        fx |-> [fx EXCEPT !.chatLogFailed = TRUE],
        threw |-> TRUE, next |-> call + 1]

\* ChatService.handleError: logs the interaction (a failure of the write is
\* caught) and returns the static error message.  call is the index of the
\* next ChatLogModel.create of the turn.
handleError(tok, fx, env, call) ==
  [response |-> ErrorResponse(StaticError),
   token |-> tok,
   fx |-> IF env.chatLog[call] THEN [fx EXCEPT !.chatLogWrites = @ + 1]
          ELSE [fx EXCEPT !.chatLogFailed = TRUE],
   threw |-> FALSE,
   next |-> call + 1]

\* ChatService.handleEscalation of the ticket revision.
handleEscalationTicket(user_info, tok, mock, fx0, env, call) ==
  IF ~user_info.present \/ user_info.name = EmptyStr
       \/ user_info.email = EmptyStr \/ user_info.organization = EmptyStr
  THEN [response |-> CollectInfo(StaticCollectInfo,
                                 {"name", "email", "organization"}),
        token |-> tok, fx |-> fx0, threw |-> FALSE, next |-> call]
  ELSE LET logged(c, salesforceCaseId) ==
             IF ~env.chatLog[call]
             THEN handleError(c.token,
                              [fx0 EXCEPT !.caseCalled = TRUE, !.case = c,
                                          !.chatLogFailed = TRUE],
                              env, call + 1)
             ELSE IF ~env.unansweredOk
             THEN handleError(c.token,
                              [fx0 EXCEPT !.caseCalled = TRUE, !.case = c,
                                          !.chatLogWrites = @ + 1,
                                          !.unansweredFailed = TRUE],
                              env, call + 1)
             ELSE [response |-> Escalated("ESCALATION_WITH_INFO",
                                          salesforceCaseId),
                   token |-> c.token,
                   fx |-> [fx0 EXCEPT !.caseCalled = TRUE, !.case = c,
                                      !.chatLogWrites = @ + 1,
                                      !.unansweredWrites = @ + 1],
                   threw |-> FALSE, next |-> call + 1]
           caught(c) ==
             logged(c, IF c.threw THEN FallbackCaseId ELSE c.caseId)
       IN caught(createCase(mock, tok, env.case))

\* ChatService.handleAnswered of the ticket revision: when the chat log
\* write fails it falls back to handleEscalation with the same match.
handleAnsweredTicket(user_info, matchResult, tok, mock, fx0, env) ==
  IF env.chatLog[1]
  THEN [response |-> Answered(KbAnswer(matchResult.matched_entry),
                              matchResult.confidence_score),
        token |-> tok,
        fx |-> [fx0 EXCEPT !.chatLogWrites = @ + 1],
        threw |-> FALSE, next |-> 2]
  ELSE handleEscalationTicket(user_info, tok, mock,
                              [fx0 EXCEPT !.chatLogFailed = TRUE], env, 2)

\* The guards of processQuestion, in order: input validation, then the
\* shortcut for a request that carries name, email and organization.
ticketStage(request) ==
  LET ui == request.user_info
  IN IF Len(Trim(request.user_question)) = 0 THEN "empty"
     ELSE IF Len(request.user_question) > MaxQuestionLength THEN "too_long"
     ELSE IF ui.present /\ ui.name # EmptyStr /\ ui.email # EmptyStr
               /\ ui.organization # EmptyStr
     THEN "direct"
     ELSE "match"

\* The body of the try block of processQuestion.
tryProcessQuestion(request, stage, tok, mock, threshold, status, vectors, env) ==
  LET ui == request.user_info
  IN IF stage \in {"empty", "too_long"}
     THEN handleError(tok, NoEffects, env, 1)
     ELSE IF stage = "direct"
     THEN handleEscalationTicket(ui, tok, mock, NoEffects, env, 1)
     ELSE LET decide(mt, fx1) ==
                IF isAnswerable(mt.result)
                THEN handleAnsweredTicket(ui, mt.result, tok, mock, fx1, env)
                ELSE handleEscalationTicket(ui, tok, mock, fx1, env, 1)
              matched(mt) ==
                decide(mt, [NoEffects EXCEPT !.engineCalled = TRUE,
                                             !.match = mt])
          IN matched(findBestMatchScan(threshold, status, vectors, env.match))

\* ChatService.processQuestion of the ticket revision; stage is
\* ticketStage(request).  Whatever the try block throws goes to handleError.
processQuestionTicket(request, stage, map, store, tok, mock, threshold, status, vectors, env) ==
  LET finish(c) ==
        IF c.threw
        THEN Turn(NoResponse, map, store, c.token, [c.fx EXCEPT !.threw = TRUE])
        ELSE Turn(c.response, map, store, c.token, c.fx)
      catch(r) ==
        IF r.threw THEN finish(handleError(r.token, r.fx, env, r.next))
        ELSE finish(r)
  IN catch(tryProcessQuestion(request, stage, tok, mock, threshold, status,
                              vectors, env))

(***************************************************************************)
(* Inputs                                                                  *)
(***************************************************************************)
NumSessions == 2

SessionIds == 1..NumSessions

Q_Empty == << >>
Q_Blank == << " ", " " >>
Q_Help  == << "h", "e", "l", "p" >>
Q_At    == << "a", "@", "m" >>
\* ", @": looks like an identity, the name is empty
Q_BadId == << ",", " ", "@" >>
\* "Kanak, kanak@mps.com"
Q_Id2   == << "K", "a", "n", "a", "k", ",", " ", "k", "a", "n", "a", "k",
              "@", "m", "p", "s", ".", "c", "o", "m" >>
\* "Kanak, kanak@mps.com, MPS"
Q_Id3   == Q_Id2 \o << ",", " ", "M", "P", "S" >>
\* one character more than the limit
Q_Long  == [i \in 1..(MaxQuestionLength + 1) |-> "x"]

Questions == {Q_Empty, Q_Blank, Q_Help, Q_At, Q_BadId, Q_Id2, Q_Id3, Q_Long}

Bob      == << "B", "o", "b" >>
BobEmail == << "b", "@", "x", ".", "c" >>
BobOrg   == << "X" >>

UserInfos ==
  { NoUserInfo,
    UserInfo(Bob, EmptyStr, EmptyStr),
    UserInfo(Bob, BobEmail, EmptyStr),
    UserInfo(Bob, BobEmail, BobOrg) }

Requests ==
  [user_question : Questions,
   user_session_id : {NoSession} \cup SessionIds,
   user_info : UserInfos]

\* Provider outcomes; the score of the vector index is a cosine similarity,
\* which may be negative.
VectorScores == {-100000, 0, 600000, 800000, 1000000}
TextRanks    == {0, 50000, 200000}

VectorOutcomes ==
  {[status |-> "fail", score |-> 0, id |-> 0],
   [status |-> "empty", score |-> 0, id |-> 0]}
    \cup [status : {"hit"}, score : VectorScores, id : KbIds]

TextOutcomes ==
  {[status |-> "fail", rank |-> 0, id |-> 0],
   [status |-> "empty", rank |-> 0, id |-> 0]}
    \cup [status : {"row"}, rank : TextRanks, id : KbIds]

HybridEnvs ==
  [embed : [1..maxRetries -> EmbedStatus],
   vector : VectorOutcomes, text : TextOutcomes]

EmbedAllOk == [i \in 1..maxRetries |-> "ok"]

UserEmbeddings ==
  {[ok |-> FALSE, vector |-> <<0, 0>>]} \cup [ok : {TRUE}, vector : Vectors]

ScanEnvs ==
  [findAll : {"ok", "fail"}, user : UserEmbeddings,
   entryOk : [KbIds -> BOOLEAN]]

\* The provider's embedding of the questions of each row (primary question,
\* then its alternate).
DefaultKbVectors ==
  [id \in KbIds |-> IF id = 1 THEN << <<1, 0>>, <<3, 4>> >>
                    ELSE << <<0, 1>>, <<1>> >>]

KbVectorChoices ==
  { DefaultKbVectors,
    [id \in KbIds |-> << <<3, 4>>, <<4, 3>> >>],
    [id \in KbIds |-> << <<-1, 0>>, <<0, 0>> >>] }

Thresholds == {0, 700000, 900000, 1000000}

\* Values an administrator may hand to updateConfidenceThreshold.
ThresholdInputs == Thresholds \cup {-100000, 1500000}

(***************************************************************************)
(* State                                                                   *)
(***************************************************************************)
VARIABLES
  rev,                  \* which ChatService/MatchingEngine revision runs
  useMockMode,          \* SalesforceService.useMockMode
  sessionUserMap,       \* sessionUserMap of ChatService.ts
  userStore,            \* rows of the user_info table
  confidenceThreshold,  \* MatchingEngine threshold
  kbStatus,             \* knowledge_base.status of each row
  kbVectors,            \* provider's embeddings of the stored questions
  token,                \* SalesforceService.accessToken/tokenExpiry
  pc,                   \* "idle", or the operation whose result is pending
  turn,                 \* the processQuestion call being answered
  lastMatch,            \* the findBestMatch call being returned
  lastCase,             \* the createCase call being returned
  lastUpdate            \* the updateConfidenceThreshold call being returned

vars == << rev, useMockMode, sessionUserMap, userStore, confidenceThreshold,
           kbStatus, kbVectors, token, pc, turn, lastMatch, lastCase,
           lastUpdate >>

NoRequest ==
  [user_question |-> EmptyStr, user_session_id |-> NoSession,
   user_info |-> NoUserInfo]

\* whenLogged is the response the same call returns when every chat-log and
\* unanswered-question write succeeds; inFlight holds the calls of
\* processQuestion that are suspended at their first await.
NoTurn ==
  [request |-> NoRequest, response |-> NoResponse, fx |-> NoEffects,
   mapBefore |-> [sid \in SessionIds |-> NoUserInfo], storeBefore |-> {},
   whenLogged |-> NoResponse, inFlight |-> {}]

NoUpdate == [value |-> 0, before |-> 0, threw |-> FALSE]

InitCommon ==
  /\ rev \in Revisions
  /\ sessionUserMap = [sid \in SessionIds |-> NoUserInfo]
  /\ userStore = {}
  /\ confidenceThreshold = DefaultThreshold(rev)
  /\ kbStatus = [id \in KbIds |-> "active"]
  /\ token = NoToken
  /\ pc = "idle"
  /\ turn = NoTurn
  /\ lastMatch = NoMatchTrace
  /\ lastCase = NoCase
  /\ lastUpdate = NoUpdate

Init ==
  /\ InitCommon
  /\ useMockMode \in BOOLEAN
  /\ kbVectors = DefaultKbVectors

(***************************************************************************)
(* Operations                                                              *)
(***************************************************************************)
DefaultEnv ==
  [upsertOk |-> TRUE,
   match |-> [embed |-> EmbedAllOk,
              vector |-> [status |-> "empty", score |-> 0, id |-> 0],
              text |-> [status |-> "empty", rank |-> 0, id |-> 0],
              findAll |-> "ok",
              user |-> [ok |-> TRUE, vector |-> <<1, 0>>],
              entryOk |-> [id \in KbIds |-> TRUE]],
   case |-> [auth1 |-> "ok", post1 |-> "ok", auth2 |-> "ok", post2 |-> "ok",
             id |-> "500A"],
   chatLog |-> << TRUE, TRUE, TRUE, TRUE >>,
   unansweredOk |-> TRUE,
   poolOk |-> TRUE]

\* Outcomes of the successive ChatLogModel.create calls of a turn.
ChatLogOutcomes == [1..4 -> BOOLEAN]

\* Provider outcomes of the hybrid engine tried within a chat turn.
ChatEmbedOutcomes == { EmbedAllOk, [i \in 1..maxRetries |-> "429"] }

ChatVectorOutcomes ==
  { v \in VectorOutcomes : v.status = "hit" => (v.id = 1 /\ v.score > 0) }

ChatTextOutcomes ==
  { t \in TextOutcomes : t.status = "row" => (t.id = 2 /\ t.rank # 50000) }

HybridChatEnvs ==
  { [DefaultEnv EXCEPT !.match.embed = e, !.match.vector = v,
                       !.match.text = t]
      : e \in ChatEmbedOutcomes, v \in ChatVectorOutcomes,
        t \in ChatTextOutcomes }

ScanChatEnvs ==
  { [DefaultEnv EXCEPT !.match.findAll = m.findAll, !.match.user = m.user,
                       !.match.entryOk = m.entryOk] : m \in ScanEnvs }

LogChoices(envs, n) ==
  { [e EXCEPT !.chatLog = l] : e \in envs,
      l \in {c \in ChatLogOutcomes : \A i \in (n + 1)..4 : c[i]} }

NormalEnvs ==
  { [e EXCEPT !.unansweredOk = u] : e \in LogChoices(HybridChatEnvs, 1),
                                    u \in BOOLEAN }

PooledEnvs == { [e EXCEPT !.poolOk = q] : e \in NormalEnvs, q \in BOOLEAN }

UpsertEnvs == { [DefaultEnv EXCEPT !.upsertOk = u] : u \in BOOLEAN }

\* The collaborators a turn of the session revision consults.
SessionEnvs(stage) ==
  IF stage = "parse" THEN UpsertEnvs
  ELSE IF stage = "normal" THEN NormalEnvs
  ELSE {DefaultEnv}

\* The collaborators a turn of the parse revision consults.
ParseEnvs(stage) == IF stage = "parse" THEN UpsertEnvs ELSE PooledEnvs

CaseChatEnvs == { [DefaultEnv EXCEPT !.case = c] : c \in CaseEnvs }

DirectEnvs ==
  { [e EXCEPT !.unansweredOk = u] : e \in LogChoices(CaseChatEnvs, 2),
                                    u \in BOOLEAN }

\* The collaborators a turn of the ticket revision consults.
TicketEnvs(stage) ==
  IF stage \in {"empty", "too_long"} THEN LogChoices({DefaultEnv}, 2)
  ELSE IF stage = "direct" THEN DirectEnvs
  ELSE LogChoices(ScanChatEnvs, 1)

\* The same collaborators with every chat-log and unanswered-question write
\* succeeding.
WritesSucceed(env) ==
  [env EXCEPT !.chatLog = [i \in 1..4 |-> TRUE], !.unansweredOk = TRUE,
              !.poolOk = TRUE]

RecordTurn(request, t, w) ==
  /\ turn' = [request |-> request, response |-> t.response, fx |-> t.fx,
              mapBefore |-> sessionUserMap, storeBefore |-> userStore,
              whenLogged |-> w.response, inFlight |-> turn.inFlight]
  /\ sessionUserMap' = t.sessionUserMap
  /\ userStore' = t.userStore
  /\ token' = t.token
  /\ pc' = "chat"
  /\ UNCHANGED << rev, useMockMode, confidenceThreshold, kbStatus, kbVectors,
                  lastMatch, lastCase, lastUpdate >>

\* One call of processQuestion of the session revision.
SessionTurn(request) ==
  \E pre \in {sessionPre(request, sessionUserMap)} :
    \E env \in SessionEnvs(pre.stage) :
      RecordTurn(request,
                 processQuestionSession(request, pre, sessionUserMap,
                                        userStore, token,
                                        confidenceThreshold, env),
                 processQuestionSession(request, pre, sessionUserMap,
                                        userStore, token,
                                        confidenceThreshold,
                                        WritesSucceed(env)))

\* POST /api/chat handled by the session revision.
ProcessQuestionSession ==
  /\ pc = "idle"
  /\ rev = "session"
  /\ \E request \in Requests : SessionTurn(request)

\* POST /api/chat handled by the parse revision.
ProcessQuestionParse ==
  /\ pc = "idle"
  /\ rev = "parse"
  /\ \E request \in Requests :
       \E pre \in {parsePre(request)} :
         \E env \in ParseEnvs(pre.stage) :
           RecordTurn(request,
                      processQuestionParse(request, pre, sessionUserMap,
                                           userStore, token,
                                           confidenceThreshold, env),
                      processQuestionParse(request, pre, sessionUserMap,
                                           userStore, token,
                                           confidenceThreshold,
                                           WritesSucceed(env)))

\* POST /api/chat handled by the ticket revision.
ProcessQuestionTicket ==
  /\ pc = "idle"
  /\ rev = "ticket"
  /\ \E request \in Requests :
       \E stage \in {ticketStage(request)} :
         \E env \in TicketEnvs(stage) :
           RecordTurn(request,
                      processQuestionTicket(request, stage, sessionUserMap,
                                            userStore, token, useMockMode,
                                            confidenceThreshold, kbStatus,
                                            kbVectors, env),
                      processQuestionTicket(request, stage, sessionUserMap,
                                            userStore, token, useMockMode,
                                            confidenceThreshold, kbStatus,
                                            kbVectors, WritesSucceed(env)))

\* res.json(response): the route sends the response of the turn.
SendResponse ==
  /\ pc = "chat"
  /\ pc' = "idle"
  /\ turn' = NoTurn
  /\ UNCHANGED << rev, useMockMode, sessionUserMap, userStore,
                  confidenceThreshold, kbStatus, kbVectors, token,
                  lastMatch, lastCase, lastUpdate >>

\* The cached token reaches its expiry.
TokenExpire ==
  /\ pc = "idle"
  /\ token.cached /\ token.valid
  /\ token' = [token EXCEPT !.valid = FALSE]
  /\ UNCHANGED << rev, useMockMode, sessionUserMap, userStore,
                  confidenceThreshold, kbStatus, kbVectors, pc, turn,
                  lastMatch, lastCase, lastUpdate >>

NextChat ==
  \/ ProcessQuestionSession
  \/ ProcessQuestionParse
  \/ ProcessQuestionTicket
  \/ SendResponse
  \/ TokenExpire

SpecChat == Init /\ [][NextChat]_vars

(***************************************************************************)
(* The matching engines called on their own                                *)
(***************************************************************************)
\* The hybrid engine serves the session and the parse revision alike.
InitMatch ==
  /\ InitCommon
  /\ rev \in {"session", "ticket"}
  /\ useMockMode = TRUE
  /\ kbVectors \in KbVectorChoices

\* matchingEngine.findBestMatch(question) of the hybrid engine.
FindBestMatchHybrid ==
  /\ pc = "idle"
  /\ Engine(rev) = "hybrid"
  /\ \E env \in HybridEnvs :
       lastMatch' = findBestMatchHybrid(confidenceThreshold, env)
  /\ pc' = "match"
  /\ UNCHANGED << rev, useMockMode, sessionUserMap, userStore,
                  confidenceThreshold, kbStatus, kbVectors, token, turn,
                  lastCase, lastUpdate >>

\* matchingEngine.findBestMatch(question) of the exhaustive scan.
FindBestMatchScan ==
  /\ pc = "idle"
  /\ Engine(rev) = "scan"
  /\ \E env \in ScanEnvs :
       lastMatch' = findBestMatchScan(confidenceThreshold, kbStatus,
                                      kbVectors, env)
  /\ pc' = "match"
  /\ UNCHANGED << rev, useMockMode, sessionUserMap, userStore,
                  confidenceThreshold, kbStatus, kbVectors, token, turn,
                  lastCase, lastUpdate >>

\* MatchingEngine.updateConfidenceThreshold of the hybrid engine:
\* this.CONFIDENCE_THRESHOLD = value.
updateConfidenceThresholdHybrid(threshold, value) ==
  [threshold |-> value, threw |-> FALSE]

\* MatchingEngine.updateConfidenceThreshold of the exhaustive scan: throws
\* outside [0, 1].
updateConfidenceThresholdScan(threshold, value) ==
  IF value < 0 \/ value > ScoreOne
  THEN [threshold |-> threshold, threw |-> TRUE]
  ELSE [threshold |-> value, threw |-> FALSE]

UpdateConfidenceThreshold ==
  /\ pc = "idle"
  /\ \E value \in ThresholdInputs :
       LET u == IF Engine(rev) = "hybrid"
                THEN updateConfidenceThresholdHybrid(confidenceThreshold, value)
                ELSE updateConfidenceThresholdScan(confidenceThreshold, value)
       IN /\ confidenceThreshold' = u.threshold
          /\ lastUpdate' = [value |-> value, before |-> confidenceThreshold,
                            threw |-> u.threw]
  /\ pc' = "update"
  /\ UNCHANGED << rev, useMockMode, sessionUserMap, userStore, kbStatus,
                  kbVectors, token, turn, lastMatch, lastCase >>

\* KnowledgeBaseModel.delete: the soft delete of a row.
KbDelete ==
  /\ pc = "idle"
  /\ \E id \in KbIds :
       /\ kbStatus[id] = "active"
       /\ kbStatus' = [kbStatus EXCEPT ![id] = "inactive"]
  /\ UNCHANGED << rev, useMockMode, sessionUserMap, userStore,
                  confidenceThreshold, kbVectors, token, pc, turn, lastMatch,
                  lastCase, lastUpdate >>

\* The call returns to its caller.
ReturnMatch ==
  /\ pc \in {"match", "update"}
  /\ pc' = "idle"
  /\ lastMatch' = NoMatchTrace
  /\ lastUpdate' = NoUpdate
  /\ UNCHANGED << rev, useMockMode, sessionUserMap, userStore,
                  confidenceThreshold, kbStatus, kbVectors, token, turn,
                  lastCase >>

NextMatch ==
  \/ FindBestMatchHybrid
  \/ FindBestMatchScan
  \/ UpdateConfidenceThreshold
  \/ KbDelete
  \/ ReturnMatch

SpecMatch == InitMatch /\ [][NextMatch]_vars

(***************************************************************************)
(* SalesforceService.createCase called on its own                          *)
(***************************************************************************)
InitCase ==
  /\ InitCommon
  /\ rev = "ticket"
  /\ useMockMode \in BOOLEAN
  /\ kbVectors = DefaultKbVectors

\* salesforceService.createCase(caseData)
CreateCase ==
  /\ pc = "idle"
  /\ \E env \in CaseEnvs :
       LET c == createCase(useMockMode, token, env)
       IN /\ lastCase' = c
          /\ token' = c.token
  /\ pc' = "case"
  /\ UNCHANGED << rev, useMockMode, sessionUserMap, userStore,
                  confidenceThreshold, kbStatus, kbVectors, turn, lastMatch,
                  lastUpdate >>

ReturnCase ==
  /\ pc = "case"
  /\ pc' = "idle"
  /\ lastCase' = NoCase
  /\ UNCHANGED << rev, useMockMode, sessionUserMap, userStore,
                  confidenceThreshold, kbStatus, kbVectors, token, turn,
                  lastMatch, lastUpdate >>

NextCase ==
  \/ CreateCase
  \/ ReturnCase
  \/ TokenExpire

SpecCase == InitCase /\ [][NextCase]_vars

(***************************************************************************)
(* POST /api/chat with the background logging of the earlier route         *)
(***************************************************************************)
\* That route calls ChatLogModel.create with the columns of the later
\* ChatService revisions, which are the ones it serves.
InitRoute ==
  /\ InitCommon
  /\ rev \in {"session", "parse"}
  /\ useMockMode = TRUE
  /\ kbVectors = DefaultKbVectors

\* The background tasks after res.json: task A writes the chat log, task B
\* records an unanswered question when the response is COLLECT_INFO or
\* ERROR; each failure is caught and logged.
backgroundTasks(fx, response_type, logOk, unansweredOk) ==
  LET a == IF logOk THEN [fx EXCEPT !.chatLogWrites = @ + 1]
           ELSE [fx EXCEPT !.chatLogFailed = TRUE]
  IN IF response_type \in {"COLLECT_INFO", "ERROR"}
     THEN IF unansweredOk THEN [a EXCEPT !.unansweredWrites = @ + 1]
          ELSE [a EXCEPT !.unansweredFailed = TRUE]
     ELSE a

\* res.json(response) followed by the background tasks.
SendResponseBackground ==
  /\ pc = "chat"
  /\ \E logOk \in BOOLEAN, unansweredOk \in BOOLEAN :
       turn' = [turn EXCEPT !.fx = backgroundTasks(turn.fx,
                                     turn.response.response_type,
                                     logOk, unansweredOk)]
  /\ pc' = "sent"
  /\ UNCHANGED << rev, useMockMode, sessionUserMap, userStore,
                  confidenceThreshold, kbStatus, kbVectors, token,
                  lastMatch, lastCase, lastUpdate >>

\* The handler of the route returns.
RouteDone ==
  /\ pc = "sent"
  /\ pc' = "idle"
  /\ turn' = NoTurn
  /\ UNCHANGED << rev, useMockMode, sessionUserMap, userStore,
                  confidenceThreshold, kbStatus, kbVectors, token,
                  lastMatch, lastCase, lastUpdate >>

NextRoute ==
  \/ ProcessQuestionSession
  \/ ProcessQuestionParse
  \/ SendResponseBackground
  \/ RouteDone

SpecRoute == InitRoute /\ [][NextRoute]_vars

(***************************************************************************)
(* Identity submissions to the session revision                            *)
(***************************************************************************)
\* Identity strings of every shape the parse distinguishes.
IdentityQuestions ==
  { Q_Id2, Q_Id3, Q_BadId,
    << "k", "@", "m", ".", "c", ",", " ", "K" >>,
    << "K", ",", " ", "k", "@" >>,
    << "K", ",", " ", "k", "@", "m", ",", " " >>,
    << "K", ",", "a", "@", "m", ",", "n", "@", "p" >>,
    << "K", ",", "x", ",", "k", "@", "m", ".", "c" >>,
    << " ", "K", " ", ",", "k", "@", "s", ".", "m", ",", "S", ",", "p" >> }

IdentityRequests ==
  [user_question : IdentityQuestions,
   user_session_id : {NoSession, 1},
   user_info : {NoUserInfo}]

InitIdentity ==
  /\ InitCommon
  /\ rev = "session"
  /\ useMockMode = TRUE
  /\ kbVectors = DefaultKbVectors

\* POST /api/chat with an identity submission.
SubmitIdentity ==
  /\ pc = "idle"
  /\ rev = "session"
  /\ \E request \in IdentityRequests : SessionTurn(request)

NextIdentity ==
  \/ SubmitIdentity
  \/ SendResponse

SpecIdentity == InitIdentity /\ [][NextIdentity]_vars

(***************************************************************************)
(* Overlapping turns of the session revision                               *)
(***************************************************************************)
\* processQuestion is async: a call runs from its start to its first await
\* (steps 1 to 4 up to upsertUser, or up to findBestMatch) without
\* interruption, and other calls may run before it resumes.
MaxInFlight == 2

\* The route hands over user_question and user_session_id only.
OverlapRequests ==
  [user_question : {Q_Help, Q_Id2, Q_Id3},
   user_session_id : {1, 2},
   user_info : {NoUserInfo}]

OverlapEnvs(stage) ==
  IF stage = "parse" THEN UpsertEnvs
  ELSE IF stage = "normal"
  THEN { [DefaultEnv EXCEPT !.match.text = t] : t \in ChatTextOutcomes }
  ELSE {DefaultEnv}

InitOverlap ==
  /\ InitCommon
  /\ rev = "session"
  /\ useMockMode = TRUE
  /\ kbVectors = DefaultKbVectors

\* A call of processQuestion starts: steps 1 and 2 read the session map and
\* select the branch, then the call is suspended.
BeginTurn ==
  /\ rev = "session"
  /\ Cardinality(turn.inFlight) < MaxInFlight
  /\ \E request \in OverlapRequests :
       turn' = [turn EXCEPT !.inFlight =
                  @ \cup {[request |-> request,
                           pre |-> sessionPre(request, sessionUserMap)]}]
  /\ UNCHANGED << rev, useMockMode, sessionUserMap, userStore,
                  confidenceThreshold, kbStatus, kbVectors, token, pc,
                  lastMatch, lastCase, lastUpdate >>

\* A suspended call resumes and runs to its return: the branch selected at
\* its start acts on the session map and the user store as they are now.
ResumeTurn ==
  /\ pc = "idle"
  /\ rev = "session"
  /\ \E p \in turn.inFlight :
       \E env \in OverlapEnvs(p.pre.stage) :
         LET t == processQuestionSession(p.request, p.pre, sessionUserMap,
                                         userStore, token,
                                         confidenceThreshold, env)
             w == processQuestionSession(p.request, p.pre, sessionUserMap,
                                         userStore, token,
                                         confidenceThreshold,
                                         WritesSucceed(env))
         IN /\ turn' = [request |-> p.request, response |-> t.response,
                        fx |-> t.fx, mapBefore |-> sessionUserMap,
                        storeBefore |-> userStore,
                        whenLogged |-> w.response,
                        inFlight |-> turn.inFlight \ {p}]
            /\ sessionUserMap' = t.sessionUserMap
            /\ userStore' = t.userStore
            /\ token' = t.token
  /\ pc' = "chat"
  /\ UNCHANGED << rev, useMockMode, confidenceThreshold, kbStatus, kbVectors,
                  lastMatch, lastCase, lastUpdate >>

\* res.json(response) of the resumed call; the other calls stay suspended.
SendOverlapResponse ==
  /\ pc = "chat"
  /\ pc' = "idle"
  /\ turn' = [NoTurn EXCEPT !.inFlight = turn.inFlight]
  /\ UNCHANGED << rev, useMockMode, sessionUserMap, userStore,
                  confidenceThreshold, kbStatus, kbVectors, token,
                  lastMatch, lastCase, lastUpdate >>

NextOverlap ==
  \/ BeginTurn
  \/ ResumeTurn
  \/ SendOverlapResponse

SpecOverlap == InitOverlap /\ [][NextOverlap]_vars

(***************************************************************************)
(* Properties                                                              *)
(***************************************************************************)
InTurn == pc = "chat"

ResponseTypes == {"ANSWERED", "ESCALATED", "COLLECT_INFO", "ERROR"}

\* The response of the turn carries the answer_text of a knowledge-base
\* entry.
KbAnswered ==
  /\ InTurn
  /\ turn.response.response_type = "ANSWERED"
  /\ turn.response.answer.kind = "kb"

\* The identity the turn works with: the request's user_info, or in the
\* session revision the one restored from sessionUserMap.
EffectiveUser ==
  IF rev = "session" THEN restoreUser(turn.request, turn.mapBefore).user_info
  ELSE turn.request.user_info

\* The turn returned ESCALATED with a case id.
EscalatedWithCase ==
  /\ InTurn
  /\ turn.response.response_type = "ESCALATED"
  /\ turn.response.case_id # NoCaseId

\* C1: a turn returns a knowledge-base answer only if the MatchResult the
\* engine computed in that turn has is_confident = true; a turn whose match
\* is not confident never returns a knowledge-base answer.
C1_AnswerOnlyWhenConfident ==
  /\ KbAnswered =>
       /\ turn.fx.engineCalled
       /\ turn.fx.match.result.is_confident
       /\ turn.response.confidence_score
            = turn.fx.match.result.confidence_score
  /\ (InTurn /\ turn.fx.engineCalled /\ ~turn.fx.match.result.is_confident)
       => ~KbAnswered

C1_Witness ==
  /\ KbAnswered
  /\ turn.fx.match.result.is_confident
  /\ turn.fx.match.result.matched_entry.present

\* C2: every processQuestion call returns one response of type ANSWERED,
\* ESCALATED, COLLECT_INFO or ERROR and never throws, whatever collaborators
\* fail; an ERROR carries the fixed generic message of its revision.
C2_AlwaysOneResponse ==
  InTurn =>
    /\ ~turn.fx.threw
    /\ turn.response.response_type \in ResponseTypes
    /\ turn.response.response_type = "ERROR" =>
         turn.response.message
           = (IF rev = "ticket" THEN StaticError ELSE SomethingWentWrong)

\* A turn in which the ticketing system and the chat-log write both failed
\* and that still returned a response.
C2_Witness ==
  /\ InTurn
  /\ turn.fx.caseCalled
  /\ turn.fx.case.threw
  /\ turn.fx.chatLogFailed
  /\ turn.response.response_type = "ERROR"

\* C3: a turn returns ESCALATED with a case_id only if the engine was
\* invoked in it, returned a non-confident result, and name and email are
\* known; ANSWERED, COLLECT_INFO and ERROR turns and turns with a confident
\* match carry no case.
C3_CaseOnlyAfterNonConfidentMatch ==
  /\ EscalatedWithCase =>
       /\ turn.fx.engineCalled
       /\ ~turn.fx.match.result.is_confident
       /\ hasIdentity(EffectiveUser)
  /\ (InTurn /\ turn.response.response_type # "ESCALATED")
       => turn.response.case_id = NoCaseId
  /\ (InTurn /\ turn.fx.engineCalled /\ turn.fx.match.result.is_confident)
       => ~EscalatedWithCase

\* C4: with known identity and no confident match, when the first attempt
\* and the retry of the ticketing system both fail the turn still returns
\* ESCALATED with the fallback case id, never ERROR.
C4_FallbackWhenTicketingFails ==
  ( /\ InTurn
    /\ hasIdentity(EffectiveUser)
    /\ ~turn.fx.match.result.is_confident
    /\ turn.fx.caseCalled
    /\ turn.fx.case.attempts = 2
    /\ ~turn.fx.case.first.ok
    /\ ~turn.fx.case.retry.ok )
  => /\ turn.response.response_type = "ESCALATED"
     /\ turn.response.case_id = FallbackCaseId

\* C5: createCase returns a case id on every call and never throws; when
\* the first attempt and the retry both fail it returns the fallback id.
C5_CreateCaseNeverThrows ==
  pc = "case" =>
    /\ ~lastCase.threw
    /\ lastCase.caseId # NoCaseId
    /\ (lastCase.attempts = 2 /\ ~lastCase.retry.ok)
         => lastCase.caseId = FallbackCaseId

\* C6: in non-mock mode a failed first attempt is followed by exactly one
\* further attempt, which drops the cached token and requests a new one
\* before it posts; a successful first attempt is followed by none; a call
\* never makes more than two attempts.
C6_RetryOnceWithFreshToken ==
  (pc = "case" /\ ~useMockMode) =>
    /\ lastCase.attempts \in {1, 2}
    /\ lastCase.first.ok =>
         (lastCase.attempts = 1 /\ lastCase.retry = NoAttempt)
    /\ ~lastCase.first.ok =>
         /\ lastCase.attempts = 2
         /\ lastCase.retry.authRequested
         /\ lastCase.retry.posted =>
              /\ lastCase.retry.bearer = lastCase.retry.token.value
              /\ lastCase.retry.token = IssuedToken(lastCase.retry.bearer)
              /\ token = lastCase.retry.token
         /\ ~lastCase.retry.posted => token = NoToken

\* The first attempt posted with a valid cached token and failed, and the
\* retry posted again.
C6_Witness ==
  /\ pc = "case"
  /\ ~useMockMode
  /\ lastCase.tokenBefore.cached
  /\ lastCase.tokenBefore.valid
  /\ lastCase.first.posted
  /\ ~lastCase.first.ok
  /\ lastCase.attempts = 2
  /\ lastCase.retry.posted

\* C7: every result of findBestMatch has is_confident = true exactly when
\* confidence_score >= the threshold in force, for every threshold in [0, 1]
\* and after any updateConfidenceThreshold calls.
C7_ConfidentIffScoreAtLeastThreshold ==
  (pc = "match" /\ lastMatch.threshold \in 0..ScoreOne) =>
    (lastMatch.result.is_confident
       <=> lastMatch.result.confidence_score >= lastMatch.threshold)

\* C8: when the embedding of the user's question fails, findBestMatch does
\* not throw and returns is_confident = false, matched_entry = null and (in
\* the engine whose results carry a source) source NONE.
C8_EmbeddingFailureIsNonConfident ==
  (pc = "match" /\ lastMatch.embedFailed) =>
    /\ ~lastMatch.threw
    /\ ~lastMatch.result.is_confident
    /\ ~lastMatch.result.matched_entry.present
    /\ lastMatch.result.source \in {"NONE", "absent"}

\* The question is empty, only white space or longer than the limit.
InvalidQuestion(q) == Len(Trim(q)) = 0 \/ Len(q) > MaxQuestionLength

\* C9: a turn whose question is empty, blank or longer than 1000 characters
\* returns ERROR and does nothing else: no identity restore or parse, no
\* session or user-store write, no engine call, no case creation.
C9_InvalidQuestionIsErrorOnly ==
  (InTurn /\ InvalidQuestion(turn.request.user_question)) =>
    /\ turn.response.response_type = "ERROR"
    /\ ~turn.fx.restored
    /\ ~turn.fx.parsed
    /\ ~turn.fx.sessionWrite
    /\ turn.fx.upsert = "none"
    /\ ~turn.fx.engineCalled
    /\ ~turn.fx.caseCalled
    /\ sessionUserMap = turn.mapBefore
    /\ userStore = turn.storeBefore

\* C10: a turn with no known identity (none in the request, none recorded
\* for its session id) whose input does not hold both ',' and '@' returns
\* COLLECT_INFO asking for name and email and does not invoke the engine.
C10_IdentityGate ==
  ( /\ InTurn
    /\ ~InvalidQuestion(turn.request.user_question)
    /\ ~hasIdentity(turn.request.user_info)
    /\ ~hasIdentity(restoreUser(turn.request, turn.mapBefore).user_info)
    /\ ~looksLikeIdentity(Trim(turn.request.user_question)) )
  => /\ turn.response.response_type = "COLLECT_INFO"
     /\ {"name", "email"} \subseteq turn.response.info_needed
     /\ ~turn.fx.engineCalled

\* The trimmed input of the turn and what the identity parse makes of it.
TurnInput == Trim(turn.request.user_question)

\* No identity is known to the turn: none in the request, none recorded for
\* its session id.
NoIdentityKnown ==
  /\ ~hasIdentity(turn.request.user_info)
  /\ ~hasIdentity(restoreUser(turn.request, turn.mapBefore).user_info)

\* C11: a turn with no known identity whose input looks like an identity
\* submission and parses to a name and an email records the identity in the
\* session map under its session id, upserts it into the user store keyed by
\* email (the row is there unless the store itself failed), returns ANSWERED
\* with the verification message and invokes neither the engine nor case
\* creation.
C11_IdentityParseRecordsIdentity ==
  ( /\ InTurn
    /\ NoIdentityKnown
    /\ looksLikeIdentity(TurnInput)
    /\ parseIdentity(TurnInput).ok )
  => LET p == parseIdentity(TurnInput)
         sid == turn.request.user_session_id
     IN /\ turn.response.response_type = "ANSWERED"
        /\ turn.response.answer = VerifiedAnswer(p.name, p.organization)
        /\ sid # NoSession =>
             sessionUserMap[sid] = UserInfo(p.name, p.email, p.organization)
        /\ turn.fx.upsert # "none"
        /\ turn.fx.upsert = "ok" =>
             [name |-> p.name, email |-> p.email,
              organization |-> p.organization] \in userStore
        /\ \A u, v \in userStore : u.email = v.email => u = v
        /\ ~turn.fx.engineCalled
        /\ ~turn.fx.caseCalled


\* C12: a turn whose request does not carry both a name and an email, with
\* a session id for which an earlier turn recorded an identity, loads that
\* identity and is handled with it: an ordinary question goes to the engine
\* and the identity gate never answers COLLECT_INFO.
C12_RecordedIdentityIsRestored ==
  ( /\ InTurn
    /\ ~hasIdentity(turn.request.user_info)
    /\ turn.request.user_session_id # NoSession
    /\ hasIdentity(turn.mapBefore[turn.request.user_session_id]) )
  => /\ turn.fx.restored
     /\ hasIdentity(EffectiveUser)
     /\ ~( /\ turn.response.response_type = "COLLECT_INFO"
           /\ turn.response.message = "identity_gate" )
     /\ ~looksLikeIdentity(TurnInput) => turn.fx.engineCalled


\* C13: resubmitting an identity string while the identity is already known
\* returns ANSWERED with the "already verified" message and leaves the
\* session map and the user store as they were: no parse, no upsert, no
\* engine call, however often it is repeated.
C13_ResubmissionIsIdempotent ==
  ( /\ InTurn
    /\ ~NoIdentityKnown
    /\ looksLikeIdentity(TurnInput) )
  => /\ turn.response = Answered(AlreadyVerifiedAnswer, ScoreOne)
     /\ sessionUserMap = turn.mapBefore
     /\ userStore = turn.storeBefore
     /\ ~turn.fx.parsed
     /\ turn.fx.upsert = "none"
     /\ ~turn.fx.sessionWrite
     /\ ~turn.fx.engineCalled
     /\ ~turn.fx.caseCalled


\* C14: in an ESCALATED turn with known identity and no confident match
\* the case was requested from the ticketing system, and when that call
\* succeeded the case_id of the response is the id it returned.
C14_CaseIdIsTicketIssued ==
  ( /\ InTurn
    /\ turn.response.response_type = "ESCALATED"
    /\ hasIdentity(EffectiveUser)
    /\ ~turn.fx.match.result.is_confident )
  => /\ turn.fx.caseCalled
     /\ ~turn.fx.case.threw =>
          /\ turn.response.case_id = turn.fx.case.caseId
          /\ turn.response.case_id \in TicketIds \cup {MockCaseId}


\* The turn's response has been sent (and, on the route with background
\* tasks, those have run).
TurnSent == pc \in {"chat", "sent"}

\* C15: an ESCALATED turn records an unanswered-question entry exactly once,
\* and a turn that ends ANSWERED, COLLECT_INFO or ERROR records none.
C15_UnansweredExactlyOnce ==
  TurnSent =>
    /\ turn.response.response_type = "ESCALATED" =>
         turn.fx.unansweredWrites = 1
    /\ turn.response.response_type \in {"ANSWERED", "COLLECT_INFO", "ERROR"} =>
         turn.fx.unansweredWrites = 0


\* C16: a failure of the chat-log write or of the unanswered-question write
\* never changes the response of a turn: response_type and payload are those
\* the same call returns when the writes succeed.
C16_PersistenceFailureKeepsResponse ==
  InTurn => turn.response = turn.whenLogged


\* C17: the confidence threshold lies in [0, 1] in every reachable state;
\* updateConfidenceThreshold rejects a value outside [0, 1] and leaves the
\* threshold unchanged, and after an accepted update the threshold is the
\* new value.
C17_ThresholdStaysInRange ==
  /\ confidenceThreshold \in 0..ScoreOne
  /\ pc = "update" =>
       /\ lastUpdate.value \notin 0..ScoreOne =>
            /\ lastUpdate.threw
            /\ confidenceThreshold = lastUpdate.before
       /\ ~lastUpdate.threw => confidenceThreshold = lastUpdate.value


\* C18: every result of findBestMatch has 0 <= confidence_score <= 1,
\* whatever the vector-index score, the lexical rank and the cosine
\* similarities (negative ones included), with confidence_weight in [0, 1].
C18_ScoreInUnitInterval ==
  pc = "match" =>
    /\ lastMatch.result.confidence_score >= 0
    /\ lastMatch.result.confidence_score <= ScoreOne


\* C19: when the knowledge store holds no active entry, findBestMatch
\* returns matched_entry = null and is_confident = false.
C19_EmptyStoreNeverMatches ==
  (pc = "match" /\ \A id \in KbIds : kbStatus[id] # "active") =>
    /\ ~lastMatch.result.matched_entry.present
    /\ ~lastMatch.result.is_confident


\* C20: in a turn with known identity and a confident match the answer is
\* the fixed preamble followed by the answer_text of the matched
\* knowledge-base entry and the confidence_score is the score of the match,
\* whichever source produced it.
C20_AnswerIsEntryAnswerText ==
  ( /\ InTurn
    /\ hasIdentity(EffectiveUser)
    /\ turn.fx.engineCalled
    /\ isAnswerable(turn.fx.match.result)
    /\ turn.response.response_type = "ANSWERED" )
  => /\ turn.response.answer.kind = "kb"
     /\ turn.response.answer.text
          = answer_text(turn.fx.match.result.matched_entry.id)
     /\ turn.response.confidence_score
          = turn.fx.match.result.confidence_score


\* The tokens of a comma-separated submission, trimmed.
Tokens == MapTrim(Split(TurnInput, ","))

\* The part of an address between its first '@' and the first '.' after it.
FirstDomainLabel(email) ==
  LET domain == SubSeq(email, IndexOf(email, "@") + 1, Len(email))
      dot    == IndexOf(domain, ".")
  IN IF dot = 0 THEN domain ELSE SubSeq(domain, 1, dot - 1)

Capitalized(label) ==
  IF label = << >> THEN label
  ELSE << ToUpperCase(Head(label)) >> \o Tail(label)

\* The identity the claim ascribes to the submission of the turn.
ExpectedIdentity ==
  LET withAt == {i \in DOMAIN Tokens : Includes(Tokens[i], "@")}
      email  == Tokens[CHOOSE i \in withAt : \A j \in withAt : i <= j]
  IN UserInfo(Tokens[1], email,
              IF Len(Tokens) >= 3 /\ Tokens[3] # EmptyStr THEN Tokens[3]
              ELSE Capitalized(FirstDomainLabel(email)))

\* C21: the identity parse takes the first token as the name, the token
\* holding '@' as the email and the third token, when there is one, as the
\* organization; without it the organization is the first label of the
\* email's domain, capitalized ("Kanak, kanak@mps.com" gives "Mps").
C21_IdentityParse ==
  (InTurn /\ turn.fx.upsert # "none") =>
    /\ turn.response.answer
         = VerifiedAnswer(ExpectedIdentity.name, ExpectedIdentity.organization)
    /\ turn.fx.sessionWrite =>
         sessionUserMap[turn.request.user_session_id] = ExpectedIdentity
    /\ turn.fx.upsert = "ok" =>
         [name |-> ExpectedIdentity.name, email |-> ExpectedIdentity.email,
          organization |-> ExpectedIdentity.organization] \in userStore
    /\ turn.request.user_question = Q_Id2 =>
         /\ ExpectedIdentity.name = << "K", "a", "n", "a", "k" >>
         /\ turn.response.answer.organization = << "M", "p", "s" >>
    /\ turn.request.user_question = Q_Id3 =>
         turn.response.answer.organization = << "M", "P", "S" >>

\* "Kanak, kanak@mps.com" was parsed, stored and recorded for the session
\* with the organization derived from the domain.
C21_Witness ==
  /\ InTurn
  /\ turn.request.user_question = Q_Id2
  /\ turn.fx.sessionWrite
  /\ turn.fx.upsert = "ok"
  /\ sessionUserMap[turn.request.user_session_id].organization
       = << "M", "p", "s" >>


\* C22: findBestMatch tries its steps in priority order: a vector result
\* with similarity >= threshold is accepted at once with source VECTOR and
\* the lexical search is not run; the lexical search runs only when the
\* vector step yields nothing acceptable; the result is NONE only when both
\* steps yield nothing.
C22_StepsInPriorityOrder ==
  (pc = "match" /\ Engine(rev) = "hybrid") =>
    LET vectorOk == /\ lastMatch.vectorMatch.found
                    /\ lastMatch.vectorMatch.score >= lastMatch.threshold
    IN /\ vectorOk =>
            /\ lastMatch.result.source = "VECTOR"
            /\ lastMatch.result.matched_entry
                 = KbMetadata(lastMatch.vectorMatch.id)
            /\ lastMatch.result.confidence_score = lastMatch.vectorMatch.score
            /\ ~lastMatch.textSearched
       /\ lastMatch.textSearched <=> ~vectorOk
       /\ (~vectorOk /\ lastMatch.textMatch.found) =>
            lastMatch.result.source = "TEXT"
       /\ lastMatch.result.source = "NONE" <=>
            (~vectorOk /\ ~lastMatch.textMatch.found)

\* The vector index returned a match below the threshold and the lexical
\* search then found a row.
C22_Witness ==
  /\ pc = "match"
  /\ Engine(rev) = "hybrid"
  /\ lastMatch.vectorMatch.found
  /\ lastMatch.vectorMatch.score < lastMatch.threshold
  /\ lastMatch.textSearched
  /\ lastMatch.result.source = "TEXT"


(***************************************************************************)
(* The weighted exhaustive scan                                            *)
(***************************************************************************)
\* A scan that reached the loop over kbEntries has returned.
ScanReturned ==
  /\ pc = "match"
  /\ Engine(rev) = "scan"
  /\ lastMatch.scan.findAll = "ok"
  /\ lastMatch.scan.user.ok

ActiveIds == {id \in KbIds : kbStatus[id] = "active"}

SetMax(S) == CHOOSE x \in S : \A y \in S : y <= x

\* Scoring the entry does not fail: its questions are embedded and every
\* similarity is defined.
Scorable(id) ==
  /\ lastMatch.scan.entryOk[id]
  /\ \A i \in 1..Len(kbVectors[id]) :
       ~calculateCosineSimilarity(lastMatch.scan.user.vector,
                                  kbVectors[id][i]).threw

\* max_similarity x confidence_weight of an entry.
WeightedScore(id) ==
  SetMax({calculateCosineSimilarity(lastMatch.scan.user.vector,
                                    kbVectors[id][i]).value :
            i \in 1..Len(kbVectors[id])}) * confidence_weight(id)

ScorableIds == {id \in ActiveIds : Scorable(id)}

\* The highest weighted score of the scorable active entries, not below 0.
FlooredBest == SetMax({0} \cup {WeightedScore(id) : id \in ScorableIds})

\* C23: the score of the weighted exhaustive scan is the maximum over the
\* active entries of max_similarity x confidence_weight, and when it reaches
\* the threshold the matched entry attains it (stated where every active
\* entry can be scored).
C23_ScoreIsWeightedMaximum ==
  (ScanReturned /\ ActiveIds # {} /\ ScorableIds = ActiveIds) =>
    LET best == SetMax({WeightedScore(id) : id \in ActiveIds})
    IN /\ lastMatch.result.confidence_score = best
       /\ best >= lastMatch.threshold =>
            /\ lastMatch.result.matched_entry.present
            /\ WeightedScore(lastMatch.result.matched_entry.id) = best

\* C23 (amended): the score of the scan is the maximum over the scorable
\* active entries of max_similarity x confidence_weight, floored at 0; when
\* it is positive and reaches the threshold, the matched entry is an active
\* entry attaining it.
C23_ScoreIsFlooredWeightedMaximum ==
  ScanReturned =>
    /\ lastMatch.result.confidence_score = FlooredBest
    /\ (FlooredBest > 0 /\ FlooredBest >= lastMatch.threshold) =>
         /\ lastMatch.result.matched_entry.present
         /\ lastMatch.result.matched_entry.id \in ScorableIds
         /\ WeightedScore(lastMatch.result.matched_entry.id) = FlooredBest

\* A scan over two scorable entries answers with the entry of the higher
\* weighted score, which is below the plain similarity.
C23_Witness ==
  /\ ScanReturned
  /\ ScorableIds = KbIds
  /\ lastMatch.threshold > 0
  /\ lastMatch.result.is_confident
  /\ lastMatch.result.matched_entry.present
  /\ lastMatch.result.confidence_score = WeightedScore(1)
  /\ WeightedScore(1) > WeightedScore(2)
  /\ WeightedScore(2) > 0
  /\ lastMatch.result.confidence_score < ScoreOne


\* The store without the entries whose scoring fails.
StatusWithoutFailing ==
  [id \in KbIds |-> IF Scorable(id) THEN kbStatus[id] ELSE "inactive"]

\* C24: a failure while scoring one entry skips only that entry: the result
\* of the scan equals the result of the scan over the same store with the
\* failing entries removed.
C24_FailingEntriesAreSkipped ==
  ScanReturned =>
    lastMatch.result =
      findBestMatchScan(lastMatch.threshold, StatusWithoutFailing, kbVectors,
                        [lastMatch.scan EXCEPT
                           !.entryOk = [id \in KbIds |-> TRUE]]).result


\* The scores the steps of the returned findBestMatch produced.
SeenScores ==
  (IF lastMatch.vectorMatch.found THEN {lastMatch.vectorMatch.score} ELSE {})
    \cup (IF lastMatch.textMatch.found
          THEN {dynamicScore(lastMatch.textMatch.rank)} ELSE {})
    \cup (IF ScanReturned THEN {WeightedScore(id) : id \in ScorableIds}
          ELSE {})

\* C25: when no step of findBestMatch produces a score that reaches the
\* threshold, the result is {null, best score seen or 0, false, NONE}; in
\* every result a matched entry implies is_confident.
C25_NoStepReachesThreshold ==
  pc = "match" =>
    /\ (\A s \in SeenScores : s < lastMatch.threshold) =>
         /\ ~lastMatch.result.matched_entry.present
         /\ ~lastMatch.result.is_confident
         /\ lastMatch.result.source = "NONE"
         /\ lastMatch.result.confidence_score = SetMax({0} \cup SeenScores)
    /\ lastMatch.result.matched_entry.present => lastMatch.result.is_confident


(***************************************************************************)
(* Embedding retries                                                       *)
(***************************************************************************)
\* findBestMatch of the hybrid engine has returned; its generateEmbedding
\* made embedCalls provider calls with the outcomes embedOuts.
EmbeddingDone == pc = "match" /\ Engine(rev) = "hybrid"

\* C26: generateEmbedding ends after at most 3 provider calls: a call is
\* followed by another one only when it failed with a rate limit (429) and
\* was not the last allowed attempt; success, 403 and any other failure end
\* it at once.
C26_EmbeddingRetriesOnlyOnRateLimit ==
  EmbeddingDone =>
    LET calls == lastMatch.embedCalls
        outs  == lastMatch.embedOuts
    IN /\ calls \in 1..maxRetries
       /\ \A i \in 1..(calls - 1) : outs[i] = "429"
       /\ calls < maxRetries => outs[calls] # "429"
       /\ lastMatch.embedFailed <=> outs[calls] # "ok"

\* Two rate-limit failures were retried and the third call failed with 403:
\* three calls, no embedding.
C26_Witness ==
  /\ EmbeddingDone
  /\ lastMatch.embedOuts = << "429", "429", "403" >>
  /\ lastMatch.embedCalls = 3
  /\ lastMatch.embedFailed


(***************************************************************************)
(* Token reuse                                                             *)
(***************************************************************************)
\* createCase against the ticketing system has returned.
CaseReturned == pc = "case" /\ ~useMockMode

\* C27: an authenticate call made while a token is cached and not expired,
\* with no retry in between, returns that token and sends no authentication
\* request; a request is sent only when no token is cached, the cached one
\* has expired, or a retry cleared it.
C27_CachedTokenIsReused ==
  CaseReturned =>
    LET held == lastCase.tokenBefore.cached /\ lastCase.tokenBefore.valid
    IN /\ held => /\ ~lastCase.first.authRequested
                  /\ lastCase.first.bearer = lastCase.tokenBefore.value
                  /\ lastCase.first.token = lastCase.tokenBefore
       /\ lastCase.first.authRequested => ~held
       /\ lastCase.retry.authRequested => lastCase.attempts = 2
       /\ (lastCase.attempts = 1) => token = lastCase.first.token

\* A case was posted with the token an earlier createCase had obtained, and
\* no authentication request was sent.
C27_Witness ==
  /\ CaseReturned
  /\ lastCase.tokenBefore.cached /\ lastCase.tokenBefore.valid
  /\ lastCase.attempts = 1
  /\ ~lastCase.threw
  /\ ~lastCase.first.authRequested
  /\ lastCase.first.bearer = lastCase.tokenBefore.value
  /\ lastCase.first.bearer \in AccessTokens


(***************************************************************************)
(* Soft-deleted entries                                                    *)
(***************************************************************************)
\* C28: an entry that was soft-deleted or set inactive is not returned as
\* matched_entry by any later findBestMatch, whatever the matching path.
C28_InactiveEntryIsNeverMatched ==
  (pc = "match" /\ lastMatch.result.matched_entry.present) =>
    kbStatus[lastMatch.result.matched_entry.id] = "active"


(***************************************************************************)
(* Concurrent turns                                                        *)
(***************************************************************************)
\* C29: once an identity is recorded for a session, no turn for that
\* session overwrites it, whether the turn comes later or overlaps the one
\* that recorded it.
C29_RecordedIdentityIsNeverOverwritten ==
  [][\A sid \in SessionIds :
       sessionUserMap[sid].present =>
         sessionUserMap'[sid] = sessionUserMap[sid]]_vars


\* The session map as the session alone would have made it.
OwnMap(map, session) ==
  [sid \in SessionIds |-> IF sid = session THEN map[sid] ELSE NoUserInfo]

\* C30: under any interleaving of overlapping turns, a turn of one session
\* reads and changes no other session's identity, and its response is one
\* the same turn gives when no other session has made a turn.
C30_SessionsAreIndependent ==
  [][/\ \A p \in turn'.inFlight \ turn.inFlight :
          p.pre = sessionPre(p.request,
                             OwnMap(sessionUserMap, p.request.user_session_id))
     /\ \A sid \in SessionIds :
          sessionUserMap'[sid] # sessionUserMap[sid] =>
            /\ pc = "idle" /\ pc' = "chat"
            /\ turn'.request.user_session_id = sid
     /\ (pc = "idle" /\ pc' = "chat") =>
          \A p \in turn.inFlight \ turn'.inFlight :
            \E env \in OverlapEnvs(p.pre.stage) :
              LET alone == processQuestionSession(
                             p.request, p.pre,
                             OwnMap(sessionUserMap, p.request.user_session_id),
                             {}, NoToken, confidenceThreshold, env)
              IN /\ turn'.response = alone.response
                 /\ sessionUserMap'[p.request.user_session_id] =
                      alone.sessionUserMap[p.request.user_session_id]]_vars

\* A turn of session 1 returns its answer while session 2 has a recorded
\* identity and another turn of session 2 is suspended.
C30_Witness ==
  /\ pc = "chat"
  /\ rev = "session"
  /\ turn.request.user_session_id = 1
  /\ turn.fx.restored
  /\ turn.fx.engineCalled
  /\ sessionUserMap[2].present
  /\ sessionUserMap[2] # sessionUserMap[1]
  /\ \E p \in turn.inFlight : p.request.user_session_id = 2

=============================================================================
